---- MODULE Spec2Model ----
(***************************************************************************)
(* Background workspace sync manager (src/sync-manager.ts).                *)
(*                                                                         *)
(* The module-level record `state`, the four current* references, the      *)
(* timers pending in the JavaScript runtime and the doSync executions      *)
(* suspended at an await are the state.  One action is one run-to-         *)
(* completion step of the event loop: an exported function called by the   *)
(* host, a timer callback, or the resumption of a doSync execution after   *)
(* the promise it awaits has settled.                                      *)
(***************************************************************************)
EXTENDS Integers, Sequences, FiniteSets, Bags, TLC

\* ---------------------------------------------------------------- bounds
\* doSync executions suspended at an await at the same time
MaxTasks == 2
\* timers pending in the runtime at the same time
MaxTimers == 2
\* doSync executions that get past the entry checks, over a whole behaviour
MaxAttempts == 2
\* the wall clock stops at MaxTime milliseconds
MaxTime == 70000
\* session hook handlers in flight
MaxHookTasks == 2

\* ------------------------------------------------------- values and inputs
\* null / undefined, and a present value
Null == <<>>
Some(x) == <<x>>

GraceDelayMs == 5000
MinIntervalSeconds == 60

\* WorkspaceSyncConfig, reduced to the two fields the manager reads
Config(provider, interval) == [provider |-> provider, interval |-> interval]

\* the arguments of the start calls a host makes
StartArgs ==
  { [syncConfig |-> Config(Some("off"), Some(300)),
     workspaceDir |-> "/w1", stateDir |-> "/s1", logger |-> "logger1"],
    [syncConfig |-> Config(Some("dropbox"), Some(0)),
     workspaceDir |-> "/w1", stateDir |-> "/s1", logger |-> "logger1"],
    [syncConfig |-> Config(Some("dropbox"), Some(10)),
     workspaceDir |-> "/w2", stateDir |-> "/s2", logger |-> "logger2"],
    [syncConfig |-> Config(Some("dropbox"), Some(300)),
     workspaceDir |-> "/w1", stateDir |-> "/s1", logger |-> "logger1"] }

\* the provider and interval fields a configuration can carry: absent, "off"
\* or a provider; absent, negative, zero, and values around the 60 s floor
Providers == { Null, Some("off"), Some("dropbox") }
Intervals == { Null, Some(-1), Some(0), Some(1), Some(59), Some(60), Some(61), Some(300) }

\* every combination of them, as the arguments of a start call
LifecycleArgs ==
  { [syncConfig |-> Config(p, i),
     workspaceDir |-> "/w1", stateDir |-> "/s1", logger |-> "logger1"] :
    p \in Providers, i \in Intervals }

\* the markers doSync looks for in result.error
Markers == {"--resync", "lock file found", ".lck"}

\* result.error: undefined, or a text, represented by the markers it contains
ErrorTexts ==
  { Null, Some({}), Some({"--resync"}), Some({".lck"}), Some({"lock file found"}) }

\* what runBisync resolves to
BisyncResults ==
  { [ok |-> TRUE, error |-> Null] } \cup { [ok |-> FALSE, error |-> e] : e \in ErrorTexts }

\* what the awaited runBisync promise settles to: a result, or Null for a rejection
BisyncSettles == { Some(r) : r \in BisyncResults } \cup { Null }

\* what happens between the install check settling and the first transfer
InstallOutcomes ==
  { "installThrows", "notInstalled", "resolveThrows", "ensureThrows",
    "configuredThrows", "notConfigured", "configured" }

\* file names, as their dot-separated parts: a.lck, b.lck, c.lst, d.lck.bak
FileNames == { <<"a", "lck">>, <<"b", "lck">>, <<"c", "lst">>, <<"d", "lck", "bak">> }

\* f.endsWith(".lck")
EndsWithLck(f) == f[Len(f)] = "lck"

\* ~/.cache/rclone/bisync: missing (Null), or the names of the files in it
LockDirs == { Null } \cup { Some(d) : d \in SUBSET FileNames }

\* how the file system answers one clearStaleLocks call: whether readdirSync
\* throws, and the names whose unlinkSync throws; a call with no failure
FsAnswers ==
  [ readdirThrows : BOOLEAN,
    unlinkFails : SUBSET { f \in FileNames : EndsWithLck(f) } ]
QuietFs == { [readdirThrows |-> FALSE, unlinkFails |-> {}] }

\* the logger methods that throw when called; a well-behaved logger: none
LoggerMethods == {"info", "warn", "error"}
QuietLogger == { {} }
AnyLogger == SUBSET LoggerMethods

\* result.error?.includes(m)
Includes(error, m) == error # Null /\ m \in error[1]

\* faulty variant of ProviderOff: an absent provider counts as configured
ProviderOff_onlyOff(c) == c.provider = Some("off")

\* !syncConfig.provider || syncConfig.provider === "off"
ProviderOff(c) == c.provider = Null \/ c.provider = Some("off")

Max(a, b) == IF a >= b THEN a ELSE b

\* syncConfig.interval ?? 0
intervalSeconds(c) == IF c.interval = Null THEN 0 ELSE c.interval[1]

\* faulty variant of effectiveInterval: no floor
effectiveInterval_noFloor(s) == s

\* Math.max(intervalSeconds, 60)
effectiveInterval(s) == Max(s, MinIntervalSeconds)

\* ------------------------------------------------------------------ state
VARIABLES
  state,                \* the SyncManagerState record
  currentSyncConfig,    \* Null or Some(config)
  currentWorkspaceDir,  \* Null or Some(dir)
  currentStateDir,      \* Null or Some(dir)
  currentLogger,        \* Null or Some(logger)
  timers,               \* timers pending in the runtime: records [id, delay, due]
  tasks,                \* the bag of doSync executions suspended at an await
  lockDir,              \* the lock directory on disk: Null or Some(file names)
  now,                  \* the wall clock, in milliseconds
  lastSyncTime,         \* the instant new Date() returned for state.lastSyncAt
  pluginConfig,         \* Null, or Some(syncConfig) once register() has run
  hooks,                \* the events a handler is registered for
  hookTasks,            \* the bag of hook handler executions suspended at an await
  graceTimer,           \* history: the pending timer the latest start() armed
  nAttempts,            \* history: executions that ended by recording or catching
  nSuccess,             \* history: executions whose final result was ok
  ev                    \* history: what the last step did

vars == << state, currentSyncConfig, currentWorkspaceDir, currentStateDir,
           currentLogger, timers, tasks, lockDir, now, lastSyncTime,
           pluginConfig, hooks, hookTasks, graceTimer, nAttempts, nSuccess, ev >>

plugin == << pluginConfig, hooks, hookTasks >>

context == << currentSyncConfig, currentWorkspaceDir, currentStateDir, currentLogger >>

\* the event record of a step that does nothing worth noting
Ev0 ==
  [ op |-> "init", kind |-> "none", exit |-> "none", why |-> "none",
    exc |-> "none", calls |-> 0, hs0 |-> FALSE, needsResync |-> FALSE,
    first |-> Null, ok |-> FALSE, cleanup |-> FALSE, armed |-> FALSE, cancelled |-> FALSE,
    snap |-> Null, repeat |-> FALSE, stopped |-> FALSE, last |-> Null, fs |-> Null,
    delay |-> 0, log |-> {}, order |-> << >> ]

InitState ==
  [ timeoutId |-> 0, lastSyncAt |-> Null, lastSyncOk |-> Null,
    syncCount |-> 0, errorCount |-> 0, hasSuccessfulSync |-> FALSE,
    running |-> FALSE, intervalMs |-> 0 ]

Init ==
  /\ state = InitState
  /\ currentSyncConfig = Null
  /\ currentWorkspaceDir = Null
  /\ currentStateDir = Null
  /\ currentLogger = Null
  /\ timers = {}
  /\ tasks = EmptyBag
  /\ lockDir = Null
  /\ now = 0
  /\ lastSyncTime = Null
  /\ pluginConfig = Null
  /\ hooks = {}
  /\ hookTasks = EmptyBag
  /\ graceTimer = Null
  /\ nAttempts = 0
  /\ nSuccess = 0
  /\ ev = Ev0

\* ----------------------------------------------------------------- timers
\* setTimeout returns a handle no pending timer has
NewTimerId(tms) == CHOOSE i \in 1..(Cardinality(tms) + 1) : \A t \in tms : t.id # i

\* setTimeout(callback, delay): the callback is due delay milliseconds from now
SetTimeout(tms, delay) ==
  tms \cup { [id |-> NewTimerId(tms), delay |-> delay, due |-> now + delay] }

\* clearTimeout(id): no effect when the timer has fired already
ClearTimeout(tms, id) == { t \in tms : t.id # id }

\* faulty variant of scheduleNextSync: re-arms without looking at running
scheduleNextSync_ignoresRunning(st, tms) ==
  IF st.intervalMs <= 0
    THEN [state |-> st, timers |-> tms]
    ELSE [state |-> [st EXCEPT !.timeoutId = NewTimerId(tms)],
          timers |-> SetTimeout(tms, st.intervalMs)]

\* faulty variant of scheduleNextSync: re-arms with the grace delay
scheduleNextSync_graceDelay(st, tms) ==
  IF ~st.running \/ st.intervalMs <= 0
    THEN [state |-> st, timers |-> tms]
    ELSE [state |-> [st EXCEPT !.timeoutId = NewTimerId(tms)],
          timers |-> SetTimeout(tms, GraceDelayMs)]

\* scheduleNextSync(), as the pair of the new state record and pending timers
scheduleNextSync(st, tms) ==
  IF ~st.running \/ st.intervalMs <= 0
    THEN [state |-> st, timers |-> tms]
    ELSE [state |-> [st EXCEPT !.timeoutId = NewTimerId(tms)],
          timers |-> SetTimeout(tms, st.intervalMs)]

\* faulty variant of stopTimers: running is left as it was
stopTimers_keepsRunning(st, tms) ==
  [ state |-> [st EXCEPT !.timeoutId = 0],
    timers |-> IF st.timeoutId # 0 THEN ClearTimeout(tms, st.timeoutId) ELSE tms ]

\* faulty variant of stopTimers: stopping also resets the counters
stopTimers_resetsHistory(st, tms) ==
  [ state |-> [st EXCEPT !.running = FALSE, !.timeoutId = 0,
                         !.syncCount = 0, !.errorCount = 0],
    timers |-> IF st.timeoutId # 0 THEN ClearTimeout(tms, st.timeoutId) ELSE tms ]

\* faulty variant of stopTimers: running is flipped instead of cleared
stopTimers_togglesRunning(st, tms) ==
  [ state |-> [st EXCEPT !.running = ~st.running, !.timeoutId = 0],
    timers |-> IF st.timeoutId # 0 THEN ClearTimeout(tms, st.timeoutId) ELSE tms ]

\* the part of stopSyncManager() that acts on state and the pending timers
stopTimers(st, tms) ==
  [ state |-> [st EXCEPT !.running = FALSE, !.timeoutId = 0],
    timers |-> IF st.timeoutId # 0 THEN ClearTimeout(tms, st.timeoutId) ELSE tms ]

\* faulty variant of clearStaleLocks: every file of the directory is removed
clearStaleLocks_removesAll(dir, fs) ==
  IF dir = Null THEN Null
  ELSE IF fs.readdirThrows THEN dir
  ELSE Some({ f \in dir[1] : f \in fs.unlinkFails })

\* clearStaleLocks(), lines 147-163, as the directory it leaves behind
clearStaleLocks(dir, fs) ==
  IF dir = Null THEN Null
  ELSE IF fs.readdirThrows THEN dir
  ELSE Some({ f \in dir[1] : ~EndsWithLck(f) \/ f \in fs.unlinkFails })

\* history: the suspended doSync executions, those of a runSyncLoop() marked
\* as having seen a stop()
MarkStopped(tsk) ==
  LET mark(t) == [t EXCEPT !.stopped = (t.kind = "loop")]
      unmark(t) == [t EXCEPT !.stopped = FALSE]
      count(t) == IF t \in BagToSet(tsk) THEN tsk[t] ELSE 0
  IN [ u \in { mark(t) : t \in BagToSet(tsk) } |->
         IF u.stopped THEN count(u) + count(unmark(u)) ELSE count(u) ]

\* history: the suspended doSync executions, each marked as having seen a
\* start()
MarkRestarted(tsk) ==
  LET mark(t) == [t EXCEPT !.restarted = TRUE]
      unmark(t) == [t EXCEPT !.restarted = FALSE]
      count(t) == IF t \in BagToSet(tsk) THEN tsk[t] ELSE 0
  IN [ u \in { mark(t) : t \in BagToSet(tsk) } |-> count(u) + count(unmark(u)) ]

\* ------------------------------------------------------- start, stop, status
stopSyncManager ==
  LET s == stopTimers(state, timers) IN
  /\ state' = s.state
  /\ timers' = s.timers
  /\ currentSyncConfig' = Null
  /\ currentWorkspaceDir' = Null
  /\ currentStateDir' = Null
  /\ currentLogger' = Null
  /\ ev' = [Ev0 EXCEPT !.op = "stop", !.cancelled = (s.timers # timers),
                       !.repeat = (ev.op = "stop")]
  /\ tasks' = MarkStopped(tasks)
  /\ graceTimer' = Null
  /\ UNCHANGED << lockDir, nAttempts, nSuccess, now, lastSyncTime, plugin >>

\* faulty variant of startCleans: the cleanup comes after the interval check
startCleans_afterIntervalCheck(cfg) == ~ProviderOff(cfg) /\ intervalSeconds(cfg) > 0

\* start() reaches clearStaleLocks(logger) at line 183: after the provider
\* check of lines 178-181, before the interval check of lines 185-189
startCleans(cfg) == ~ProviderOff(cfg)

startSyncManager(a, fs) ==
  LET s == stopTimers(state, timers)
      cfg == a.syncConfig
      secs == intervalSeconds(cfg)
      enabled == ~ProviderOff(cfg) /\ secs > 0
  IN
  /\ currentSyncConfig' = Some(cfg)
  /\ currentWorkspaceDir' = Some(a.workspaceDir)
  /\ currentStateDir' = Some(a.stateDir)
  /\ currentLogger' = Some(a.logger)
  /\ IF enabled
       THEN /\ Cardinality(s.timers) < MaxTimers
            /\ state' = [s.state EXCEPT !.running = TRUE,
                                        !.intervalMs = effectiveInterval(secs) * 1000,
                                        !.timeoutId = NewTimerId(s.timers)]
            /\ timers' = SetTimeout(s.timers, GraceDelayMs)
            /\ graceTimer' = Some(CHOOSE tm \in timers' : tm.id = state'.timeoutId)
       ELSE /\ state' = s.state
            /\ timers' = s.timers
            /\ graceTimer' = Null
  /\ ev' = [Ev0 EXCEPT !.op = "start",
                       !.why = IF ProviderOff(cfg) THEN "off"
                               ELSE IF secs <= 0 THEN "disabled"
                               ELSE IF effectiveInterval(secs) # secs THEN "clamped"
                               ELSE "started",
                       !.cleanup = startCleans(cfg),
                       !.fs = IF startCleans(cfg) THEN Some(fs) ELSE Null,
                       !.armed = enabled,
                       !.cancelled = (s.timers # timers),
                       !.order = (IF startCleans(cfg) THEN << "clearStaleLocks" >>
                                                      ELSE << >>)
                                 \o (IF enabled THEN << "setTimeout" >> ELSE << >>)]
  /\ tasks' = MarkRestarted(tasks)
  /\ lockDir' = IF startCleans(cfg) THEN clearStaleLocks(lockDir, fs) ELSE lockDir
  /\ UNCHANGED << nAttempts, nSuccess, now, lastSyncTime, plugin >>

\* faulty variant of StatusOf: errorCount is reported as the attempts made
StatusOf_reportsAttempts(st) ==
  [ running |-> st.running, lastSyncAt |-> st.lastSyncAt,
    lastSyncOk |-> st.lastSyncOk, syncCount |-> st.syncCount,
    errorCount |-> st.syncCount ]

\* the object getSyncManagerStatus() returns, lines 229-235
StatusOf(st) ==
  [ running |-> st.running, lastSyncAt |-> st.lastSyncAt,
    lastSyncOk |-> st.lastSyncOk, syncCount |-> st.syncCount,
    errorCount |-> st.errorCount ]

getSyncManagerStatus ==
  /\ ev' = [Ev0 EXCEPT !.op = "status", !.snap = Some(StatusOf(state))]
  /\ UNCHANGED << state, context, timers, tasks, lockDir, nAttempts, nSuccess, now, lastSyncTime, plugin, graceTimer >>

\* ------------------------------------------------------------------ doSync
\* lines 67-70: the entry checks pass
doSyncEnters ==
  /\ currentSyncConfig # Null
  /\ currentLogger # Null
  /\ currentWorkspaceDir # Null
  /\ ~ProviderOff(currentSyncConfig[1])

whyNotEntered ==
  IF currentSyncConfig = Null \/ currentLogger = Null \/ currentWorkspaceDir = Null
    THEN "noContext" ELSE "providerOff"

\* a doSync execution suspended at `await isRcloneInstalled()` (line 75)
NewTask(kind) ==
  [ kind |-> kind, pc |-> "install",
    syncConfig |-> currentSyncConfig[1], logger |-> currentLogger[1],
    resolved |-> Null, hs0 |-> state.hasSuccessfulSync,
    needsResync |-> FALSE, resync |-> FALSE, first |-> Null, calls |-> 0,
    stopped |-> FALSE, restarted |-> FALSE ]

\* faulty variant of Caught: a caught exception also forgets the baseline
Caught_resetsBaseline(st, src, lg, ok) ==
  [ state |-> [st EXCEPT !.lastSyncOk = Some(FALSE), !.errorCount = @ + 1,
                         !.hasSuccessfulSync = FALSE],
    exit |-> IF "error" \in lg THEN "throw" ELSE "return",
    why |-> "exception", exc |-> src, ok |-> ok, cleanup |-> FALSE ]

\* faulty variant of Caught: the exception is counted and thrown again
Caught_rethrows(st, src, lg, ok) ==
  [ state |-> [st EXCEPT !.lastSyncOk = Some(FALSE), !.errorCount = @ + 1],
    exit |-> "throw",
    why |-> "exception", exc |-> src, ok |-> ok, cleanup |-> FALSE ]

\* faulty variant of Caught: a caught exception is logged but not counted
Caught_skipsErrorCount(st, src, lg, ok) ==
  [ state |-> [st EXCEPT !.lastSyncOk = Some(FALSE)],
    exit |-> IF "error" \in lg THEN "throw" ELSE "return",
    why |-> "exception", exc |-> src, ok |-> ok, cleanup |-> FALSE ]

\* the catch block, lines 138-144; logger.error itself may throw
Caught(st, src, lg, ok) ==
  [ state |-> [st EXCEPT !.lastSyncOk = Some(FALSE), !.errorCount = @ + 1],
    exit |-> IF "error" \in lg THEN "throw" ELSE "return",
    why |-> "exception", exc |-> src, ok |-> ok, cleanup |-> FALSE ]

\* faulty variant of Skipped: an unmet precondition is counted as an error
Skipped_countsError(st, why) ==
  [ state |-> [st EXCEPT !.lastSyncOk = Some(FALSE), !.errorCount = @ + 1],
    exit |-> "return", why |-> why, exc |-> "none",
    ok |-> FALSE, cleanup |-> FALSE ]

\* return without recording, lines 78 and 87
Skipped(st, why) ==
  [ state |-> st, exit |-> "return", why |-> why, exc |-> "none",
    ok |-> FALSE, cleanup |-> FALSE ]

\* new Date(): the ordinal of the recording stands for the timestamp
NewDate(st) == Some(st.syncCount + 1)

\* faulty variant of Recorded: a failed transfer also stops the scheduler
Recorded_failureStops(st, res, lg) ==
  LET s1 == [st EXCEPT !.lastSyncAt = NewDate(st), !.syncCount = @ + 1] IN
  IF res.ok
    THEN [ state |-> [s1 EXCEPT !.lastSyncOk = Some(TRUE), !.hasSuccessfulSync = TRUE],
           exit |-> "return", why |-> "success",
           exc |-> "none", ok |-> TRUE, cleanup |-> FALSE ]
    ELSE [ state |-> [s1 EXCEPT !.lastSyncOk = Some(FALSE), !.errorCount = @ + 1,
                                !.running = FALSE],
           exit |-> "return", why |-> "failure",
           exc |-> "none", ok |-> FALSE, cleanup |-> FALSE ]

\* lines 121-137: record the final result
Recorded(st, res, lg) ==
  LET s1 == [st EXCEPT !.lastSyncAt = NewDate(st), !.syncCount = @ + 1] IN
  IF res.ok
    THEN LET s2 == [s1 EXCEPT !.lastSyncOk = Some(TRUE), !.hasSuccessfulSync = TRUE] IN
         IF "info" \in lg
           THEN Caught(s2, "logger", lg, TRUE)
           ELSE [ state |-> s2, exit |-> "return", why |-> "success",
                  exc |-> "none", ok |-> TRUE, cleanup |-> FALSE ]
    ELSE LET s2 == [s1 EXCEPT !.lastSyncOk = Some(FALSE), !.errorCount = @ + 1]
             locked == Includes(res.error, "lock file found") \/ Includes(res.error, ".lck")
         IN
         IF "warn" \in lg \/ (locked /\ "info" \in lg)
           THEN Caught(s2, "logger", lg, FALSE)
           ELSE [ state |-> s2, exit |-> "return", why |-> "failure",
                  exc |-> "none", ok |-> FALSE, cleanup |-> locked ]

\* the execution t ends with outcome out; runSyncLoop (lines 61-64)
\* goes on to scheduleNextSync() unless doSync threw
EndTask(t, op, out, first, last, fs) ==
  LET s == IF t.kind = "loop" /\ out.exit = "return"
             THEN scheduleNextSync(out.state, timers)
             ELSE [state |-> out.state, timers |-> timers]
      counted == out.why \in {"success", "failure", "exception"}
  IN
  /\ Cardinality(s.timers) <= MaxTimers
  /\ state' = s.state
  /\ timers' = s.timers
  /\ tasks' = tasks (-) SetToBag({t})
  /\ lockDir' = IF out.cleanup THEN clearStaleLocks(lockDir, fs) ELSE lockDir
  /\ lastSyncTime' = IF out.state.lastSyncAt # state.lastSyncAt
                       THEN Some(now) ELSE lastSyncTime
  /\ nAttempts' = IF counted THEN nAttempts + 1 ELSE nAttempts
  /\ nSuccess' = IF counted /\ out.ok THEN nSuccess + 1 ELSE nSuccess
  /\ ev' = [Ev0 EXCEPT !.op = op, !.kind = t.kind, !.exit = out.exit,
                       !.why = out.why, !.exc = out.exc, !.calls = t.calls,
                       !.hs0 = t.hs0, !.needsResync = t.needsResync,
                       !.first = first, !.ok = out.ok, !.cleanup = out.cleanup,
                       !.armed = (s.timers # timers), !.stopped = t.stopped,
                       !.last = last,
                       !.fs = IF out.cleanup THEN Some(fs) ELSE Null]
  /\ UNCHANGED << context, now, plugin, graceTimer >>

\* the execution t suspends again as t2, at the await of a runBisync call
Suspend(t, op, t2) ==
  /\ tasks' = (tasks (-) SetToBag({t})) (+) SetToBag({t2})
  /\ ev' = [Ev0 EXCEPT !.op = op, !.kind = t2.kind, !.exit = "await",
                       !.calls = t2.calls, !.hs0 = t2.hs0,
                       !.needsResync = t2.needsResync, !.first = t2.first]
  /\ UNCHANGED << state, context, timers, lockDir, nAttempts, nSuccess, now, lastSyncTime, plugin, graceTimer >>

\* doSync() called: lines 67-75, up to the first await
CanStartTask ==
  /\ BagCardinality(tasks) < MaxTasks
  /\ nAttempts + BagCardinality(tasks) < MaxAttempts

\* faulty variant of triggerImmediateSync: a call that cannot run is an error
triggerImmediateSync_countsSkip ==
  IF doSyncEnters
    THEN /\ CanStartTask
         /\ tasks' = tasks (+) SetToBag({NewTask("immediate")})
         /\ ev' = [Ev0 EXCEPT !.op = "trigger", !.kind = "immediate", !.exit = "await",
                              !.hs0 = state.hasSuccessfulSync]
         /\ UNCHANGED << state, context, timers, lockDir, nAttempts, nSuccess, now, lastSyncTime, plugin, graceTimer >>
    ELSE /\ state' = [state EXCEPT !.lastSyncOk = Some(FALSE)]
         /\ ev' = [Ev0 EXCEPT !.op = "trigger", !.kind = "immediate", !.exit = "return",
                              !.why = whyNotEntered]
         /\ UNCHANGED << context, timers, tasks, lockDir, nAttempts, nSuccess, now, lastSyncTime, plugin, graceTimer >>

\* triggerImmediateSync(), lines 238-240
triggerImmediateSync ==
  IF doSyncEnters
    THEN /\ CanStartTask
         /\ tasks' = tasks (+) SetToBag({NewTask("immediate")})
         /\ ev' = [Ev0 EXCEPT !.op = "trigger", !.kind = "immediate", !.exit = "await",
                              !.hs0 = state.hasSuccessfulSync]
         /\ UNCHANGED << state, context, timers, lockDir, nAttempts, nSuccess, now, lastSyncTime, plugin, graceTimer >>
    ELSE /\ ev' = [Ev0 EXCEPT !.op = "trigger", !.kind = "immediate", !.exit = "return",
                              !.why = whyNotEntered]
         /\ UNCHANGED << state, context, timers, tasks, lockDir, nAttempts, nSuccess, now, lastSyncTime, plugin, graceTimer >>

\* a pending timer fires: its callback runs runSyncLoop() (lines 56-58, 205-207)
timerFires(tm) ==
  /\ tm \in timers
  /\ graceTimer' = IF graceTimer = Some(tm) THEN Null ELSE graceTimer
  /\ IF doSyncEnters
       THEN /\ CanStartTask
            /\ tasks' = tasks (+) SetToBag({NewTask("loop")})
            /\ timers' = timers \ {tm}
            /\ ev' = [Ev0 EXCEPT !.op = "fire", !.kind = "loop", !.exit = "await",
                                 !.hs0 = state.hasSuccessfulSync,
                                 !.delay = tm.delay]
            /\ UNCHANGED << state, context, lockDir, nAttempts, nSuccess, now, lastSyncTime, plugin >>
       ELSE LET s == scheduleNextSync(state, timers \ {tm}) IN
            /\ state' = s.state
            /\ timers' = s.timers
            /\ ev' = [Ev0 EXCEPT !.op = "fire", !.kind = "loop", !.exit = "return",
                                 !.why = whyNotEntered,
                                 !.armed = (s.timers # timers \ {tm}),
                                 !.delay = tm.delay]
            /\ UNCHANGED << context, tasks, lockDir, nAttempts, nSuccess, now, lastSyncTime, plugin >>

\* faulty variant of resolveSyncConfigCall: the state directory is not passed
resolveSyncConfigCall_dropsStateDir(t) ==
  Some([ syncConfig |-> t.syncConfig,
         workspaceDir |-> currentWorkspaceDir,
         stateDir |-> Null ])

\* the arguments of resolveSyncConfig at line 81: the config captured at
\* line 69 and the directories as they are now
resolveSyncConfigCall(t) ==
  Some([ syncConfig |-> t.syncConfig,
         workspaceDir |-> currentWorkspaceDir,
         stateDir |-> currentStateDir ])

\* the install check settles: lines 75-105, up to the await of the transfer
installSettles(t, o, lg) ==
  /\ t \in BagToSet(tasks)
  /\ t.pc = "install"
  /\ LET needsResync == ~state.hasSuccessfulSync
         end(out) == EndTask(t, "install", out, Null, Null, CHOOSE fs \in QuietFs : TRUE)
     IN
     CASE o = "installThrows"    -> end(Caught(state, "install", lg, FALSE))
       [] o = "notInstalled"     -> IF "warn" \in lg
                                      THEN end(Caught(state, "logger", lg, FALSE))
                                      ELSE end(Skipped(state, "notInstalled"))
       [] o = "resolveThrows"    -> end(Caught(state, "resolve", lg, FALSE))
       [] o = "ensureThrows"     -> end(Caught(state, "ensure", lg, FALSE))
       [] o = "configuredThrows" -> end(Caught(state, "configured", lg, FALSE))
       [] o = "notConfigured"    -> IF "warn" \in lg
                                      THEN end(Caught(state, "logger", lg, FALSE))
                                      ELSE end(Skipped(state, "notConfigured"))
       [] o = "configured"       -> IF "info" \in lg
                                      THEN end(Caught(state, "logger", lg, FALSE))
                                      ELSE Suspend(t, "install",
                                             [t EXCEPT !.pc = "bisync",
                                                       !.resolved = resolveSyncConfigCall(t),
                                                       !.needsResync = needsResync,
                                                       !.resync = needsResync,
                                                       !.calls = t.calls + 1])

\* faulty variant of shouldRetry: retries also after a first call with resync
shouldRetry_ignoresNeedsResync(result, needsResync) ==
  ~result.ok /\ Includes(result.error, "--resync")

\* faulty variant of shouldRetry: never retries
shouldRetry_never(result, needsResync) == FALSE

\* line 107: the first result asks for the retry with resync: true
shouldRetry(result, needsResync) ==
  ~result.ok /\ Includes(result.error, "--resync") /\ ~needsResync

\* the first runBisync settles: lines 96-119, then 121-145
bisyncSettles(t, r, lg, fs) ==
  /\ t \in BagToSet(tasks)
  /\ t.pc = "bisync"
  /\ LET end(out) == EndTask(t, "bisync", out, r, r, fs)
     IN
     IF r = Null
       THEN end(Caught(state, "transfer", lg, FALSE))
       ELSE IF shouldRetry(r[1], t.needsResync)
              THEN IF "info" \in lg
                     THEN end(Caught(state, "logger", lg, FALSE))
                     ELSE Suspend(t, "bisync", [t EXCEPT !.pc = "retry", !.first = r,
                                                         !.resync = TRUE,
                                                         !.calls = t.calls + 1])
              ELSE end(Recorded(state, r[1], lg))

\* the retry with resync: true settles: line 109, then 121-145
retrySettles(t, r, lg, fs) ==
  /\ t \in BagToSet(tasks)
  /\ t.pc = "retry"
  /\ LET end(out) == EndTask(t, "retry", out, t.first, r, fs)
     IN
     IF r = Null
       THEN end(Caught(state, "transfer", lg, FALSE))
       ELSE end(Recorded(state, r[1], lg))

\* ---------------------------------------------------------- session hooks
HookEvents == {"session_start", "session_end"}

\* onSessionStart?: boolean, onSessionEnd?: boolean
Flags == { Null, Some(FALSE), Some(TRUE) }

\* the plugin configurations register() is called with
PluginConfigs ==
  [ provider : Providers, interval : {Null, Some(300)},
    onSessionStart : Flags, onSessionEnd : Flags ]

\* ctx.agentId
AgentIds == { Null, Some("a1") }

\* if (syncConfig.onSessionStart), if (syncConfig.onSessionEnd)
Truthy(f) == f = Some(TRUE)

\* faulty variant of RegisteredHooks: one flag installs both handlers
RegisteredHooks_eitherFlag(cfg) ==
  IF Truthy(cfg.onSessionStart) \/ Truthy(cfg.onSessionEnd) THEN HookEvents ELSE {}

\* the events register() installs a handler for
RegisteredHooks(cfg) ==
  { e \in HookEvents : IF e = "session_start" THEN Truthy(cfg.onSessionStart)
                                               ELSE Truthy(cfg.onSessionEnd) }

\* register(api) with api.pluginConfig = cfg
register(cfg) ==
  /\ pluginConfig = Null
  /\ pluginConfig' = Some(cfg)
  /\ hooks' = RegisteredHooks(cfg)
  /\ ev' = [Ev0 EXCEPT !.op = "register"]
  /\ UNCHANGED << state, context, timers, tasks, lockDir, now, lastSyncTime,
                  nAttempts, nSuccess, hookTasks, graceTimer >>

\* ctx.agentId ? resolvePath(`agents/${ctx.agentId}/workspace`) : resolvePath("workspace")
HookWsDir(agentId) ==
  IF agentId # Null THEN << "agents", agentId[1], "workspace" >> ELSE << "workspace" >>

\* faulty variant of HookCaught: the exception is logged and thrown again
HookCaught_rethrows(src, lg) ==
  [exit |-> "throw", why |-> "exception", exc |-> src, log |-> {"error"} \ lg]

\* the catch block of a handler: api.logger.error, which itself may throw
HookCaught(src, lg) ==
  IF "error" \in lg
    THEN [exit |-> "throw", why |-> "exception", exc |-> src, log |-> {}]
    ELSE [exit |-> "return", why |-> "exception", exc |-> src, log |-> {"error"}]

\* a logger call inside the try block, after which the handler returns
HookLog(level, why, lg) ==
  IF level \in lg
    THEN HookCaught("logger", lg)
    ELSE [exit |-> "return", why |-> why, exc |-> "none", log |-> {level}]

\* a return without a logger call
HookReturn(why) == [exit |-> "return", why |-> why, exc |-> "none", log |-> {}]

\* the handler execution t ends with outcome out
EndHook(t, op, out) ==
  /\ hookTasks' = hookTasks (-) SetToBag({t})
  /\ ev' = [Ev0 EXCEPT !.op = op, !.kind = t.event, !.exit = out.exit,
                       !.why = out.why, !.exc = out.exc, !.calls = t.calls,
                       !.log = out.log]
  /\ UNCHANGED << state, context, timers, tasks, lockDir, now, lastSyncTime,
                  nAttempts, nSuccess, pluginConfig, hooks, graceTimer >>

\* the handler execution t suspends as t2 at the await of runBisync
SuspendHook(t, op, t2, log) ==
  /\ hookTasks' = (hookTasks (-) SetToBag({t})) (+) SetToBag({t2})
  /\ ev' = [Ev0 EXCEPT !.op = op, !.kind = t2.event, !.exit = "await",
                       !.why = "configured", !.calls = t2.calls, !.log = log]
  /\ UNCHANGED << state, context, timers, tasks, lockDir, now, lastSyncTime,
                  nAttempts, nSuccess, pluginConfig, hooks, graceTimer >>

\* the host emits event e: the handler runs up to its first await,
\* index.ts lines 534-540 and 593-599
hookFires(e, agentId, lg) ==
  /\ e \in hooks
  /\ IF ProviderOff(pluginConfig[1])
       THEN /\ ev' = [Ev0 EXCEPT !.op = "hook", !.kind = e, !.exit = "return",
                                 !.why = "off"]
            /\ UNCHANGED hookTasks
       ELSE IF "info" \in lg
         THEN /\ ev' = [Ev0 EXCEPT !.op = "hook", !.kind = e, !.exit = "throw",
                                   !.why = "exception", !.exc = "logger"]
              /\ UNCHANGED hookTasks
         ELSE /\ BagCardinality(hookTasks) < MaxHookTasks
              /\ hookTasks' = hookTasks (+)
                   SetToBag({[ event |-> e, pc |-> "install",
                               wsDir |-> HookWsDir(agentId), calls |-> 0 ]})
              /\ ev' = [Ev0 EXCEPT !.op = "hook", !.kind = e, !.exit = "await",
                                   !.log = {"info"}]
  /\ UNCHANGED << state, context, timers, tasks, lockDir, now, lastSyncTime,
                  nAttempts, nSuccess, pluginConfig, hooks, graceTimer >>

\* what happens between the install check settling and the transfer
HookInstallOutcomes ==
  { "installThrows", "notInstalled", "resolvePathThrows", "resolveThrows",
    "ensureThrows", "configuredThrows", "notConfigured", "configured" }

\* the install check of handler execution t settles: index.ts lines 540-565
\* and 599-612, up to the await of runBisync
hookInstallSettles(t, o, lg) ==
  /\ t \in BagToSet(hookTasks)
  /\ t.pc = "install"
  /\ CASE o \in {"installThrows", "resolvePathThrows", "resolveThrows",
                 "ensureThrows", "configuredThrows"} ->
            EndHook(t, "hookInstall", HookCaught(o, lg))
       [] o \in {"notInstalled", "notConfigured"} ->
            IF t.event = "session_start"
              THEN EndHook(t, "hookInstall", HookLog("warn", o, lg))
              ELSE EndHook(t, "hookInstall", HookReturn(o))
       [] o = "configured" ->
            IF t.event = "session_start" /\ "info" \in lg
              THEN EndHook(t, "hookInstall", HookCaught("logger", lg))
              ELSE SuspendHook(t, "hookInstall",
                               [t EXCEPT !.pc = "bisync", !.calls = @ + 1],
                               IF t.event = "session_start" THEN {"info"} ELSE {})

\* faulty variant of hookBisyncSettles: a "--resync" failure is retried
hookBisyncSettles_retries(t, r, lg) ==
  /\ t \in BagToSet(hookTasks)
  /\ t.pc = "bisync"
  /\ IF r = Null THEN EndHook(t, "hookBisync", HookCaught("bisync", lg))
     ELSE IF r[1].ok THEN EndHook(t, "hookBisync", HookLog("info", "success", lg))
     ELSE IF Includes(r[1].error, "--resync") /\ t.calls < 2
       THEN SuspendHook(t, "hookBisync", [t EXCEPT !.calls = @ + 1], {})
       ELSE EndHook(t, "hookBisync", HookLog("error", "failure", lg))

\* the runBisync call of handler execution t settles: index.ts lines 565-588
\* and 612-631
hookBisyncSettles(t, r, lg) ==
  /\ t \in BagToSet(hookTasks)
  /\ t.pc = "bisync"
  /\ IF r = Null THEN EndHook(t, "hookBisync", HookCaught("bisync", lg))
     ELSE IF r[1].ok THEN EndHook(t, "hookBisync", HookLog("info", "success", lg))
     ELSE IF t.event = "session_start" /\ Includes(r[1].error, "--resync")
       THEN EndHook(t, "hookBisync", HookLog("warn", "resyncNeeded", lg))
       ELSE EndHook(t, "hookBisync", HookLog("error", "failure", lg))

\* ------------------------------------------------------------ specifications
\* the host's logger never throws
Next ==
  \/ \E a \in StartArgs, fs \in QuietFs : startSyncManager(a, fs)
  \/ stopSyncManager
  \/ getSyncManagerStatus
  \/ triggerImmediateSync
  \/ \E tm \in timers : timerFires(tm)
  \/ \E t \in BagToSet(tasks), o \in InstallOutcomes, lg \in QuietLogger : installSettles(t, o, lg)
  \/ \E t \in BagToSet(tasks), r \in BisyncSettles, lg \in QuietLogger, fs \in QuietFs :
       bisyncSettles(t, r, lg, fs)
  \/ \E t \in BagToSet(tasks), r \in BisyncSettles, lg \in QuietLogger, fs \in QuietFs :
       retrySettles(t, r, lg, fs)

Spec == Init /\ [][Next]_vars

\* the host never calls triggerImmediateSync
NextScheduled ==
  \/ \E a \in StartArgs, fs \in QuietFs : startSyncManager(a, fs)
  \/ stopSyncManager
  \/ getSyncManagerStatus
  \/ \E tm \in timers : timerFires(tm)
  \/ \E t \in BagToSet(tasks), o \in InstallOutcomes, lg \in QuietLogger : installSettles(t, o, lg)
  \/ \E t \in BagToSet(tasks), r \in BisyncSettles, lg \in QuietLogger, fs \in QuietFs :
       bisyncSettles(t, r, lg, fs)
  \/ \E t \in BagToSet(tasks), r \in BisyncSettles, lg \in QuietLogger, fs \in QuietFs :
       retrySettles(t, r, lg, fs)

SpecScheduled == Init /\ [][NextScheduled]_vars

\* the start calls followed with a throwing logger: a configured provider,
\* once without periodic sync (interval 0) and once with it (interval 10)
AnyLoggerArgs ==
  { a \in StartArgs : ~ProviderOff(a.syncConfig)
                      /\ intervalSeconds(a.syncConfig) < MinIntervalSeconds }

\* any logger call doSync makes may throw
NextAnyLogger ==
  \/ \E a \in AnyLoggerArgs, fs \in QuietFs : startSyncManager(a, fs)
  \/ stopSyncManager
  \/ getSyncManagerStatus
  \/ triggerImmediateSync
  \/ \E tm \in timers : timerFires(tm)
  \/ \E t \in BagToSet(tasks), o \in InstallOutcomes, lg \in AnyLogger : installSettles(t, o, lg)
  \/ \E t \in BagToSet(tasks), r \in BisyncSettles, lg \in AnyLogger, fs \in QuietFs :
       bisyncSettles(t, r, lg, fs)
  \/ \E t \in BagToSet(tasks), r \in BisyncSettles, lg \in AnyLogger, fs \in QuietFs :
       retrySettles(t, r, lg, fs)

SpecAnyLogger == Init /\ [][NextAnyLogger]_vars

\* the runtime runs the callback of a timer that stays pending
TimersFire == WF_vars(\E tm \in timers : timerFires(tm))

SpecFair == Init /\ [][Next]_vars /\ TimersFire

\* the start calls of a host that uses no periodic sync
LockArgs == { a \in StartArgs : intervalSeconds(a.syncConfig) <= 0 \/ ProviderOff(a.syncConfig) }

\* the lock directory starts in any condition and the file system may fail
\* any clearStaleLocks call; the host starts without periodic sync and
\* triggers immediate syncs
InitLocks ==
  /\ state = InitState
  /\ currentSyncConfig = Null
  /\ currentWorkspaceDir = Null
  /\ currentStateDir = Null
  /\ currentLogger = Null
  /\ timers = {}
  /\ tasks = EmptyBag
  /\ lockDir \in LockDirs
  /\ now = 0
  /\ lastSyncTime = Null
  /\ pluginConfig = Null
  /\ hooks = {}
  /\ hookTasks = EmptyBag
  /\ graceTimer = Null
  /\ nAttempts = 0
  /\ nSuccess = 0
  /\ ev = Ev0

NextLocks ==
  \/ \E a \in LockArgs, fs \in FsAnswers : startSyncManager(a, fs)
  \/ triggerImmediateSync
  \/ \E t \in BagToSet(tasks), o \in InstallOutcomes, lg \in QuietLogger : installSettles(t, o, lg)
  \/ \E t \in BagToSet(tasks), r \in BisyncSettles, lg \in QuietLogger, fs \in FsAnswers :
       bisyncSettles(t, r, lg, fs)
  \/ \E t \in BagToSet(tasks), r \in BisyncSettles, lg \in QuietLogger, fs \in FsAnswers :
       retrySettles(t, r, lg, fs)

SpecLocks == InitLocks /\ [][NextLocks]_vars

\* the host only starts, stops and polls, with every kind of configuration
\* ---------------------------------------------------------- wall clock
\* time passes while the event loop is idle, until a pending timer is due
Tick ==
  /\ \E tm \in timers : now < tm.due /\ tm.due <= MaxTime /\ now' = tm.due
  /\ ev' = [Ev0 EXCEPT !.op = "tick"]
  /\ UNCHANGED << state, context, timers, tasks, lockDir, lastSyncTime,
                  nAttempts, nSuccess, plugin, graceTimer >>

\* the configurations whose interval the clock can reach
TimedArgs == { a \in StartArgs : ~ProviderOff(a.syncConfig)
                                 /\ intervalSeconds(a.syncConfig) \in 1..MinIntervalSeconds }

\* the outcomes followed under the clock: every attempt reaches the transfer,
\* which succeeds, fails asking for a resync, or rejects
TimedInstallOutcomes == { "configured" }
TimedBisyncSettles ==
  { Some([ok |-> TRUE, error |-> Null]),
    Some([ok |-> FALSE, error |-> Some({"--resync"})]),
    Null }

\* the runtime runs a timer's callback no earlier than the timer is due, and
\* no later than the callback of a timer that is due after it
NextTimed ==
  \/ Tick
  \/ \E a \in TimedArgs, fs \in QuietFs : startSyncManager(a, fs)
  \/ stopSyncManager
  \/ triggerImmediateSync
  \/ \E tm \in timers :
       /\ tm.due <= now
       /\ \A other \in timers : tm.due <= other.due
       /\ timerFires(tm)
  \/ \E t \in BagToSet(tasks), o \in TimedInstallOutcomes, lg \in QuietLogger :
       installSettles(t, o, lg)
  \/ \E t \in BagToSet(tasks), r \in TimedBisyncSettles, lg \in QuietLogger, fs \in QuietFs :
       bisyncSettles(t, r, lg, fs)
  \/ \E t \in BagToSet(tasks), r \in TimedBisyncSettles, lg \in QuietLogger, fs \in QuietFs :
       retrySettles(t, r, lg, fs)

SpecTimed == Init /\ [][NextTimed]_vars

\* the plugin is registered and the host emits session events
NextHooks ==
  \/ \E cfg \in PluginConfigs : register(cfg)
  \/ \E e \in HookEvents, a \in AgentIds, lg \in QuietLogger : hookFires(e, a, lg)
  \/ \E t \in BagToSet(hookTasks), o \in HookInstallOutcomes, lg \in QuietLogger :
       hookInstallSettles(t, o, lg)
  \/ \E t \in BagToSet(hookTasks), r \in BisyncSettles, lg \in QuietLogger :
       hookBisyncSettles(t, r, lg)

SpecHooks == Init /\ [][NextHooks]_vars

\* ctx of the service's start(): ctx.workspaceDir may be absent; a path is
\* the sequence of its segments, as in HookWsDir
ServiceContexts ==
  [ workspaceDir : {Null, Some(<< "w1" >>)}, stateDir : {"/s1"}, logger : {"logger1"} ]

\* ctx.workspaceDir ?? api.resolvePath("workspace"), index.ts line 647
ServiceWsDir(ctx) ==
  IF ctx.workspaceDir # Null THEN ctx.workspaceDir[1] ELSE HookWsDir(Null)

\* the host starts the registered service: index.ts lines 641-650
serviceStart(ctx, fs) ==
  /\ pluginConfig # Null
  /\ IF ProviderOff(pluginConfig[1])
       THEN /\ ev' = [Ev0 EXCEPT !.op = "serviceStart", !.exit = "return",
                                 !.why = "off", !.log = {"info"}]
            /\ UNCHANGED << state, context, timers, tasks, lockDir, now, lastSyncTime,
                            nAttempts, nSuccess, plugin, graceTimer >>
       ELSE startSyncManager([ syncConfig |-> pluginConfig[1],
                               workspaceDir |-> ServiceWsDir(ctx),
                               stateDir |-> ctx.stateDir,
                               logger |-> ctx.logger ], fs)

\* the host stops the registered service: index.ts lines 651-654
serviceStop ==
  /\ pluginConfig # Null
  /\ stopSyncManager

\* the configurations followed when the service and the handlers run
\* together: every field set
ServicePluginConfigs ==
  { c \in PluginConfigs : c.provider # Null /\ c.onSessionStart # Null
                          /\ c.onSessionEnd # Null }

\* the plugin as the host runs it: registered once, its service started and
\* stopped, its timer callbacks run, and session events emitted; every
\* attempt and every handler reaches its transfer, which succeeds, fails
\* asking for a resync, or rejects
NextPlugin ==
  \/ \E cfg \in ServicePluginConfigs : register(cfg)
  \/ \E ctx \in ServiceContexts, fs \in QuietFs : serviceStart(ctx, fs)
  \/ serviceStop
  \/ \E tm \in timers : timerFires(tm)
  \/ \E t \in BagToSet(tasks), o \in TimedInstallOutcomes, lg \in QuietLogger :
       installSettles(t, o, lg)
  \/ \E t \in BagToSet(tasks), r \in TimedBisyncSettles, lg \in QuietLogger, fs \in QuietFs :
       bisyncSettles(t, r, lg, fs)
  \/ \E t \in BagToSet(tasks), r \in TimedBisyncSettles, lg \in QuietLogger, fs \in QuietFs :
       retrySettles(t, r, lg, fs)
  \/ \E e \in HookEvents, a \in AgentIds, lg \in QuietLogger : hookFires(e, a, lg)
  \/ \E t \in BagToSet(hookTasks), o \in TimedInstallOutcomes, lg \in QuietLogger :
       hookInstallSettles(t, o, lg)
  \/ \E t \in BagToSet(hookTasks), r \in TimedBisyncSettles, lg \in QuietLogger :
       hookBisyncSettles(t, r, lg)

SpecPlugin == Init /\ [][NextPlugin]_vars

NextLifecycle ==
  \/ \E a \in LifecycleArgs, fs \in QuietFs : startSyncManager(a, fs)
  \/ stopSyncManager
  \/ getSyncManagerStatus

SpecLifecycle == Init /\ [][NextLifecycle]_vars

\* the same host over a lock directory in any condition
NextLifecycleLocks ==
  \/ \E a \in LifecycleArgs, fs \in FsAnswers : startSyncManager(a, fs)
  \/ stopSyncManager
  \/ getSyncManagerStatus

SpecLifecycleLocks == InitLocks /\ [][NextLifecycleLocks]_vars

TypeOK ==
  /\ state.syncCount \in 0..MaxAttempts
  /\ BagCardinality(tasks) <= MaxTasks
  /\ Cardinality(timers) <= MaxTimers

\* ------------------------------------------------------------------ claims
\* the doSync executions that have passed every precondition and await a transfer
Transfers == { t \in BagToSet(tasks) : t.pc \in {"bisync", "retry"} }
NumTransfers == BagCardinality([t \in Transfers |-> tasks[t]])

\* the last step ended a doSync execution that had got past the entry checks
AttemptEnded == ev.op \in {"install", "bisync", "retry"} /\ ev.exit \in {"return", "throw"}

ResyncFailure == Some([ok |-> FALSE, error |-> Some({"--resync"})])

\* state.running <=> the active configuration enables the periodic sync
ActiveConfigEnabled ==
  /\ currentSyncConfig # Null
  /\ ~ProviderOff(currentSyncConfig[1])
  /\ currentSyncConfig[1].interval # Null
  /\ currentSyncConfig[1].interval[1] > 0

\* C1: in every reachable state at most one sync attempt (a doSync execution
\* past its preconditions that has not returned) is in flight.
C1_AtMostOneAttempt == NumTransfers <= 1

C3_CountsOrdered == state.syncCount >= state.errorCount /\ state.errorCount >= 0

\* C4: once N attempts of which k succeeded have all completed, syncCount = N
\* and errorCount = N - k.
C4_CountsMatchAttempts ==
  tasks = EmptyBag => /\ state.syncCount = nAttempts
                      /\ state.errorCount = nAttempts - nSuccess

\* C5: hasSuccessfulSync is monotone: no step of any operation takes it from
\* true back to false.
C5_BaselineMonotone == [][state.hasSuccessfulSync => state.hasSuccessfulSync']_vars

C5_Witness ==
  /\ state.hasSuccessfulSync
  /\ AttemptEnded
  /\ ev.why \in {"failure", "exception"}

\* C6: no attempt propagates an exception to its caller, and an exception
\* raised by the install check, parameter resolution, ensure-config, the
\* configured check or the transfer ends the attempt with lastSyncOk = false
\* and errorCount increased by 1.
CollaboratorExceptions == {"install", "resolve", "ensure", "configured", "transfer"}

C6_ExceptionsCaught ==
  [][ /\ ev'.exit # "throw"
      /\ ev'.exc \in CollaboratorExceptions =>
           /\ ev'.exit = "return"
           /\ state'.lastSyncOk = Some(FALSE)
           /\ state'.errorCount = state.errorCount + 1 ]_vars

C6_Witness ==
  /\ AttemptEnded
  /\ ev.exc = "transfer"
  /\ state.errorCount = 2

\* C7: an attempt that short-circuits on an unmet precondition leaves
\* lastSyncAt, lastSyncOk, syncCount, errorCount and hasSuccessfulSync as they
\* were and has invoked no transfer.
ShortCircuits == {"noContext", "providerOff", "notInstalled", "notConfigured"}

C7_ShortCircuitChangesNothing ==
  [][ (ev'.op \in {"trigger", "fire", "install"} /\ ev'.why \in ShortCircuits) =>
        /\ state'.lastSyncAt = state.lastSyncAt
        /\ state'.lastSyncOk = state.lastSyncOk
        /\ state'.syncCount = state.syncCount
        /\ state'.errorCount = state.errorCount
        /\ state'.hasSuccessfulSync = state.hasSuccessfulSync
        /\ ev'.calls = 0
        /\ NumTransfers' <= NumTransfers ]_vars

C7_Witness ==
  /\ ev.op = "install"
  /\ ev.why = "notConfigured"
  /\ state.syncCount > 0

\* C8: an attempt invokes the transfer at most twice; the second invocation
\* happens iff the first failed with "--resync" in its error text and was made
\* with resync = false, and it is made with resync = true; any other failure
\* of the first invocation ends the attempt as failed after one invocation.
C8_RetryOnlyOnFirstRunFailure ==
  /\ \A t \in BagToSet(tasks) :
       /\ t.calls <= 2
       /\ t.pc = "bisync" => t.calls = 1 /\ t.resync = t.needsResync
       /\ t.pc = "retry" => /\ t.calls = 2
                            /\ t.resync
                            /\ ~t.needsResync
                            /\ ~t.first[1].ok
                            /\ Includes(t.first[1].error, "--resync")
  /\ AttemptEnded =>
       /\ ev.calls <= 2
       /\ (ev.calls = 1 /\ ev.first # Null) =>
            /\ ~(~ev.first[1].ok /\ Includes(ev.first[1].error, "--resync") /\ ~ev.needsResync)
            /\ ~ev.first[1].ok => ev.why = "failure" /\ state.lastSyncOk = Some(FALSE)

C8_Witness ==
  /\ ev.op = "bisync"
  /\ ev.exit = "await"
  /\ \E t \in BagToSet(tasks) : t.pc = "retry" /\ t.calls = 2 /\ t.first = ResyncFailure

\* C9 as claimed: an attempt that starts with hasSuccessfulSync = false, whose
\* first transfer fails with "bisync requires --resync on first run" and whose
\* second transfer, made with resync = true, would succeed, ends recorded as a
\* success after exactly two invocations.
C9_FirstRunRetrySucceeds ==
  ( /\ AttemptEnded
    /\ ~ev.hs0
    /\ ev.first = ResyncFailure
    /\ ev.calls = 2 => ev.ok ) =>
      /\ ev.calls = 2
      /\ state.lastSyncOk = Some(TRUE)

\* C9 as amended: the same for an attempt that starts with hasSuccessfulSync =
\* true, so that its first transfer is made with resync = false.
C9_RetryAfterBaselineSucceeds ==
  ( /\ AttemptEnded
    /\ ev.hs0
    /\ ev.first = ResyncFailure
    /\ ev.calls = 2 => ev.ok ) =>
      /\ ev.calls = 2
      /\ ev.why = "success"
      /\ state.lastSyncOk = Some(TRUE)

C9_Witness ==
  /\ AttemptEnded
  /\ ev.hs0
  /\ ev.first = ResyncFailure
  /\ ev.calls = 2
  /\ ev.ok

\* C10: right after stop() returns running is false, no timer is pending and
\* the active run context (config, workspaceDir, stateDir, logger) is none.
C10_StopLeavesNothingPending ==
  ev.op = "stop" =>
    /\ ~state.running
    /\ timers = {}
    /\ currentSyncConfig = Null
    /\ currentWorkspaceDir = Null
    /\ currentStateDir = Null
    /\ currentLogger = Null

\* the fields of state that record the past attempts
History(st) ==
  << st.lastSyncAt, st.lastSyncOk, st.syncCount, st.errorCount, st.hasSuccessfulSync >>

\* C11: stop() and start() leave lastSyncAt, lastSyncOk, syncCount, errorCount
\* and hasSuccessfulSync as they were, so the history survives any number of
\* stop/start cycles.
C11_StopStartKeepHistory ==
  [][ ev'.op \in {"start", "stop"} => History(state') = History(state) ]_vars

C11_Witness ==
  /\ ev.op = "start"
  /\ state.running
  /\ state.syncCount = 2
  /\ state.errorCount = 1
  /\ state.hasSuccessfulSync

\* C12: stop() is idempotent and total: it can be called in every state, also
\* when never started or right after another stop(), it raises no error and
\* leaves running false, and a stop() that follows a stop() changes nothing.
C12_StopIdempotentTotal ==
  [][ /\ ENABLED stopSyncManager
      /\ ev'.op = "stop" =>
           /\ ~state'.running
           /\ ev'.exit # "throw"
           /\ ev'.repeat => /\ state' = state
                            /\ context' = context
                            /\ timers' = timers
                            /\ tasks' = tasks ]_vars

C12_Witness ==
  /\ ev.op = "stop"
  /\ ev.repeat
  /\ state.syncCount > 0
  /\ timers # {}
  /\ tasks # EmptyBag

\* the configuration passed to the start() just made asks for periodic sync
StartedEnabled ==
  /\ currentSyncConfig[1].provider # Null
  /\ currentSyncConfig[1].provider # Some("off")
  /\ currentSyncConfig[1].interval # Null
  /\ currentSyncConfig[1].interval[1] > 0

\* C13: start() sets running = true and arms a timer iff the provider is set
\* and not "off" and the configured interval is > 0; with the provider unset
\* or "off", or the interval missing or <= 0, start arms no timer and running
\* is false right afterwards.
C13_StartRunsIffEnabled ==
  [][ ev'.op = "start" =>
        /\ state'.running <=> StartedEnabled'
        /\ ev'.armed <=> StartedEnabled'
        /\ StartedEnabled' =>
             [id |-> state'.timeoutId, delay |-> GraceDelayMs,
              due |-> now' + GraceDelayMs] \in timers'
        /\ ~StartedEnabled' =>
             /\ ~state'.running
             /\ state'.timeoutId = 0
             /\ timers' \subseteq timers ]_vars

C13_Witness ==
  /\ ev.op = "start"
  /\ ev.cancelled
  /\ currentSyncConfig = Some(Config(Some("dropbox"), Null))
  /\ ~state.running
  /\ timers = {}

\* the interval passed to the start() just made is a number s > 0
StartedPositiveInterval ==
  /\ currentSyncConfig[1].interval # Null
  /\ currentSyncConfig[1].interval[1] > 0

\* max(s, 60) * 1000 for the interval s passed to the start() just made
ClampedMs ==
  LET s == currentSyncConfig[1].interval[1]
  IN IF s < 60 THEN 60000 ELSE s * 1000

\* C14 as claimed: for every configured interval s > 0, after start
\* intervalMs = max(s, 60) * 1000 and the clamp warning was logged iff s < 60;
\* intervalMs >= 60000 whenever running is true.
C14_IntervalClamped ==
  [][ /\ state'.running => state'.intervalMs >= 60000
      /\ (ev'.op = "start" /\ StartedPositiveInterval') =>
           /\ state'.intervalMs = ClampedMs'
           /\ ev'.why = "clamped" <=> currentSyncConfig'[1].interval[1] < 60 ]_vars

\* C14 as amended: the same for every start() whose provider is set and not
\* "off"; a start() with the provider unset or "off" logs no clamp warning and
\* leaves intervalMs as it was.
C14_IntervalClampedWhenEnabled ==
  [][ /\ state'.running => state'.intervalMs >= 60000
      /\ (ev'.op = "start" /\ StartedEnabled') =>
           /\ state'.intervalMs = ClampedMs'
           /\ ev'.why = "clamped" <=> currentSyncConfig'[1].interval[1] < 60
      /\ (ev'.op = "start" /\ ~StartedEnabled') =>
           /\ state'.intervalMs = state.intervalMs
           /\ ev'.why # "clamped" ]_vars

C14_Witness ==
  /\ ev.op = "start"
  /\ ev.why = "clamped"
  /\ currentSyncConfig[1].interval = Some(59)
  /\ state.running
  /\ state.intervalMs = 60000

\* the last step completed a scheduled attempt: the doSync() call of a
\* runSyncLoop() returned, at its entry checks or after its awaits
ScheduledAttemptCompleted ==
  /\ ev.kind = "loop"
  /\ ev.op \in {"fire", "install", "bisync", "retry"}
  /\ ev.exit = "return"

\* C15: when a scheduled attempt completes, whether it succeeded, failed or
\* short-circuited, a new one-shot timer for intervalMs is armed if running is
\* true at that moment, and none is armed if running is false.
C15_RearmIffRunning ==
  [][ ScheduledAttemptCompleted' =>
        LET before == IF ev'.op = "fire" THEN Cardinality(timers) - 1
                                         ELSE Cardinality(timers)
        IN IF state'.running
             THEN /\ ev'.armed
                  /\ [id |-> state'.timeoutId, delay |-> state'.intervalMs,
                      due |-> now' + state'.intervalMs] \in timers'
                  /\ Cardinality(timers') = before + 1
             ELSE /\ ~ev'.armed
                  /\ Cardinality(timers') = before
                  /\ timers' \subseteq timers
                  /\ state'.timeoutId = state.timeoutId ]_vars

C15_Witness ==
  /\ ScheduledAttemptCompleted
  /\ ev.why = "notInstalled"
  /\ state.running
  /\ state.syncCount > 0
  /\ \E tm \in timers : tm.id = state.timeoutId /\ tm.delay = state.intervalMs

\* C16: a stop() called while an attempt is in flight does not abort it (the
\* attempt stays in flight, runs to completion and records its outcome), and
\* no timer is armed when that attempt completes.
C16_StopMidAttemptPreventsRearm ==
  [][ /\ ev'.op = "stop" => BagCardinality(tasks') = BagCardinality(tasks)
      /\ (ScheduledAttemptCompleted' /\ ev'.stopped) =>
           /\ ~ev'.armed
           /\ timers' \subseteq timers ]_vars

\* the last step ended the doSync() call of a runSyncLoop(), by return or throw
ScheduledAttemptEnded ==
  /\ ev.kind = "loop"
  /\ ev.op \in {"fire", "install", "bisync", "retry"}
  /\ ev.exit \in {"return", "throw"}

\* the last step was a timer callback whose doSync() got past its entry checks
ScheduledAttemptBegan == ev.op = "fire" /\ ev.exit = "await"

\* the last step was a stop(), on its own or as the first statement of start()
StopCalled == ev.op \in {"stop", "start"}

\* C17: no attempt failure halts the loop: when pending timers fire, once a
\* scheduled attempt has ended with running true, whatever its outcome,
\* another scheduled attempt begins later unless stop() is called (or the
\* attempts this model follows are used up).
C17_LoopContinues ==
  (ScheduledAttemptEnded /\ state.running) ~>
    (ScheduledAttemptBegan \/ StopCalled \/ ~CanStartTask)

C17_Witness ==
  /\ ScheduledAttemptBegan
  /\ state.running
  /\ nAttempts = 1
  /\ state.errorCount = 1
  /\ state.lastSyncOk = Some(FALSE)

\* the step just taken belongs to a doSync() call: its entry, or a resumption
AttemptStep == ev.op \in {"trigger", "fire", "install", "bisync", "retry"}

\* C18: an attempt, scheduled or triggered by triggerImmediateSync and
\* whatever its outcome, never changes running, intervalMs or the pending
\* timer: an immediate sync leaves the pending timers and the stored handle as
\* they are, and around a scheduled attempt the timers change only by the
\* firing that started it and by the scheduleNextSync() that follows it.
C18_AttemptKeepsSchedule ==
  [][ AttemptStep' =>
        /\ state'.running = state.running
        /\ state'.intervalMs = state.intervalMs
        /\ ev'.kind = "immediate" =>
             /\ timers' = timers
             /\ state'.timeoutId = state.timeoutId
        /\ ev'.kind = "loop" =>
             LET fired == IF ev'.op = "fire" THEN timers \ timers' ELSE {}
                 base == timers \ fired
                 kept == [state' EXCEPT !.timeoutId = state.timeoutId]
             IN /\ ev'.op = "fire" => Cardinality(fired) = 1
                /\ IF ScheduledAttemptCompleted'
                     THEN [state |-> state', timers |-> timers'] =
                            scheduleNextSync(kept, base)
                     ELSE /\ timers' = base
                          /\ state'.timeoutId = state.timeoutId ]_vars

C18_Witness ==
  /\ AttemptEnded
  /\ ev.kind = "immediate"
  /\ ev.why = "failure"
  /\ state.errorCount = 2
  /\ state.running
  /\ \E tm \in timers : tm.id = state.timeoutId /\ tm.delay = state.intervalMs

\* C19: status() is a pure read: it changes no state variable, and the
\* snapshot it returns holds the current values of running, lastSyncAt,
\* lastSyncOk, syncCount and errorCount.
C19_StatusPureRead ==
  [][ ev'.op = "status" =>
        /\ state' = state
        /\ context' = context
        /\ timers' = timers
        /\ tasks' = tasks
        /\ DOMAIN ev'.snap[1] =
             {"running", "lastSyncAt", "lastSyncOk", "syncCount", "errorCount"}
        /\ ev'.snap[1].running = state'.running
        /\ ev'.snap[1].lastSyncAt = state'.lastSyncAt
        /\ ev'.snap[1].lastSyncOk = state'.lastSyncOk
        /\ ev'.snap[1].syncCount = state'.syncCount
        /\ ev'.snap[1].errorCount = state'.errorCount ]_vars

C19_Witness ==
  /\ ev.op = "status"
  /\ ev.snap[1].running
  /\ ev.snap[1].syncCount = 2
  /\ ev.snap[1].errorCount = 1
  /\ ev.snap[1].lastSyncOk = Some(FALSE)
  /\ ev.snap[1].lastSyncAt = Some(2)

\* no run context is active: never started, or stopped since
NoContext ==
  /\ currentSyncConfig = Null
  /\ currentWorkspaceDir = Null
  /\ currentStateDir = Null
  /\ currentLogger = Null

\* C20: triggerImmediateSync() called when no run context is active (never
\* started, or after stop()) is a no-op: it returns at the entry check, starts
\* no collaborator call and changes no state.
C20_TriggerWithoutContextNoOp ==
  [][ (ev'.op = "trigger" /\ NoContext) =>
        /\ ev'.exit = "return"
        /\ ev'.why = "noContext"
        /\ ev'.calls = 0
        /\ ~ev'.cleanup
        /\ tasks' = tasks
        /\ state' = state
        /\ context' = context
        /\ timers' = timers ]_vars

C20_Witness ==
  /\ ev.op = "trigger"
  /\ ev.why = "noContext"
  /\ NoContext
  /\ state.syncCount > 0
  /\ state.hasSuccessfulSync

\* the parameters of the latest start(), as an attempt resolves them
ActiveParameters ==
  Some([ syncConfig |-> currentSyncConfig[1],
         workspaceDir |-> currentWorkspaceDir,
         stateDir |-> currentStateDir ])

\* C21: a second start with different parameters fully supersedes the first
\* run's config, workspaceDir and stateDir: an attempt that begins after the
\* latest start uses the config and logger of that start, and resolves its
\* transfer parameters to that start's config, workspaceDir and stateDir only.
C21_NextAttemptUsesNewParameters ==
  \A t \in BagToSet(tasks) :
    (~t.restarted /\ ~NoContext) =>
      /\ t.syncConfig = currentSyncConfig[1]
      /\ t.logger = currentLogger[1]
      /\ t.pc \in {"bisync", "retry"} => t.resolved = ActiveParameters

C21_Witness ==
  \E t1, t2 \in BagToSet(tasks) :
    /\ ~NoContext
    /\ t1.restarted
    /\ t1.syncConfig # currentSyncConfig[1]
    /\ t1.logger # currentLogger[1]
    /\ ~t2.restarted
    /\ t2.pc = "bisync"
    /\ t2.resolved = ActiveParameters
    /\ currentWorkspaceDir = Some("/w2")

\* the names of FileNames that end in ".lck", and the rest
LckNames == { <<"a", "lck">>, <<"b", "lck">> }
OtherNames == { <<"c", "lst">>, <<"d", "lck", "bak">> }

\* the last step ended an attempt whose final result is a failure with a
\* lock marker in its error text
EndedOnLockFailure ==
  /\ AttemptEnded
  /\ ev.why = "failure"
  /\ ev.last # Null
  /\ ~ev.last[1].ok
  /\ ev.last[1].error # Null
  /\ ev.last[1].error[1] \cap {"lock file found", ".lck"} # {}

\* C22: an attempt invokes the stale-lock cleanup exactly when its final
\* result is a failure whose error text contains "lock file found" or ".lck";
\* the cleanup removes only files whose name ends in ".lck", leaves every other
\* file untouched, and raises no error when the directory is missing, cannot
\* be listed, or a deletion fails.
C22_CleanupOnLockFailureOnly ==
  [][ AttemptEnded' =>
        /\ ev'.cleanup <=> EndedOnLockFailure'
        /\ ~ev'.cleanup => lockDir' = lockDir
        /\ ev'.cleanup =>
             /\ ev'.exit = "return"
             /\ ev'.exc = "none"
             /\ lockDir = Null => lockDir' = Null
             /\ lockDir # Null =>
                  /\ lockDir' # Null
                  /\ lockDir'[1] \subseteq lockDir[1]
                  /\ lockDir[1] \cap OtherNames = lockDir'[1] \cap OtherNames
                  /\ ~ev'.fs[1].readdirThrows =>
                       lockDir'[1] \cap LckNames =
                         lockDir[1] \cap ev'.fs[1].unlinkFails ]_vars

C22_Witness ==
  /\ EndedOnLockFailure
  /\ ev.cleanup
  /\ ev.fs = Some([readdirThrows |-> FALSE, unlinkFails |-> { <<"b", "lck">> }])
  /\ lockDir = Some({ <<"b", "lck">>, <<"c", "lst">>, <<"d", "lck", "bak">> })

\* a timer-driven attempt begins: the callback of the timer tm enters doSync
TimerAttemptBegan == ev.op = "fire" /\ ev.kind = "loop" /\ ev.exit = "await"

\* C23 (as stated): a timer-driven attempt never begins earlier than intervalMs
\* after the completion of the previous attempt, whatever the host did in
\* between; lastSyncTime is the instant the previous recorded attempt completed.
C23_TimerAttemptAfterInterval ==
  [][ (TimerAttemptBegan' /\ lastSyncTime # Null) =>
        now' >= lastSyncTime[1] + state.intervalMs ]_vars

\* C23 (amended): the timer armed at the completion of a timer-driven attempt
\* is due intervalMs after that completion, intervalMs being at least 60000,
\* and the attempt it drives begins no earlier than it is due; the timer of
\* start() is due 5000 ms after start() and nothing else arms a timer.
C23_RearmedTimerWaitsInterval ==
  [][ /\ (ScheduledAttemptCompleted' /\ ev'.armed) =>
            \A tm \in timers' \ timers :
               /\ tm.delay = state'.intervalMs
               /\ tm.delay >= MinIntervalSeconds * 1000
               /\ tm.due = now' + tm.delay
      /\ TimerAttemptBegan' =>
            \A tm \in timers \ timers' :
               /\ now' >= tm.due
               /\ tm.delay = GraceDelayMs \/ tm.delay >= MinIntervalSeconds * 1000
      /\ (timers' \ timers # {}) =>
            \/ ScheduledAttemptCompleted' /\ ev'.armed
            \/ /\ ev'.op = "start"
               /\ \A tm \in timers' \ timers : tm.due = now' + GraceDelayMs ]_vars

\* an attempt driven by a re-armed timer begins 60000 ms after the completion
\* of the attempt that armed the timer
C23_Witness ==
  /\ TimerAttemptBegan
  /\ lastSyncTime = Some(GraceDelayMs)
  /\ now = GraceDelayMs + MinIntervalSeconds * 1000
  /\ ev.delay = MinIntervalSeconds * 1000
  /\ state.syncCount = 1
  /\ timers = {}

\* C24: counters and timestamps are updated together, never partially: in
\* every reachable state lastSyncOk is known (true or false) if and only if
\* lastSyncAt is set and syncCount >= 1.
C24_OutcomeKnownIffRecorded ==
  (state.lastSyncOk # Null) <=> (state.lastSyncAt # Null /\ state.syncCount >= 1)

\* C25: registration installs a session_start handler if and only if
\* onSessionStart is true and a session_end handler if and only if onSessionEnd
\* is true, each whatever the other flag is.
C25_HandlersFollowFlags ==
  pluginConfig # Null =>
    /\ "session_start" \in hooks <=> pluginConfig[1].onSessionStart = Some(TRUE)
    /\ "session_end" \in hooks <=> pluginConfig[1].onSessionEnd = Some(TRUE)

\* registered with onSessionEnd true and onSessionStart false: only the
\* session_end handler is installed
C25_Witness ==
  /\ pluginConfig # Null
  /\ pluginConfig[1].onSessionStart = Some(FALSE)
  /\ pluginConfig[1].onSessionEnd = Some(TRUE)
  /\ hooks = {"session_end"}

\* the runBisync calls of hook handlers that are in flight
NumHookTransfers ==
  BagCardinality([ t \in { u \in BagToSet(hookTasks) : u.pc = "bisync" }
                     |-> CopiesIn(t, hookTasks) ])

\* C26: one invocation of a session hook handler invokes the bidirectional sync
\* at most once, never again after a "--resync" failure, and only if provider
\* is set and not "off" and the install check and the configured check both
\* returned true; with provider unset or "off" the handler returns before the
\* install check.
C26_HookSyncsAtMostOnce ==
  [][ /\ NumHookTransfers' > NumHookTransfers =>
           /\ NumHookTransfers' = NumHookTransfers + 1
           /\ ev'.op = "hookInstall"
           /\ ev'.why = "configured"
           /\ ev'.calls = 1
           /\ ~ProviderOff(pluginConfig[1])
      /\ ev'.op = "hookBisync" =>
           /\ ev'.exit # "await"
           /\ ev'.calls = 1
           /\ NumHookTransfers' = NumHookTransfers - 1
      /\ (ev'.op = "hook" /\ ProviderOff(pluginConfig[1])) =>
           /\ ev'.exit = "return"
           /\ hookTasks' = hookTasks
      /\ \A t \in BagToSet(hookTasks') :
           t.calls = IF t.pc = "bisync" THEN 1 ELSE 0 ]_vars

\* a session_start handler ended after its one transfer failed asking for a
\* resync, and no handler is left in flight
C26_Witness ==
  /\ ev.op = "hookBisync"
  /\ ev.kind = "session_start"
  /\ ev.why = "resyncNeeded"
  /\ ev.calls = 1
  /\ ev.log = {"warn"}
  /\ hookTasks = EmptyBag

\* a step of a session hook handler
HookStep == ev.op \in {"hook", "hookInstall", "hookBisync"}

\* C27: a session hook handler never propagates an exception: an exception
\* thrown by the install check, path or parameter resolution, ensure-config,
\* the configured check or the transfer is caught and logged at error level,
\* and the handler completes normally.
C27_HookNeverThrows ==
  [][ HookStep' =>
        /\ ev'.exit \in {"await", "return"}
        /\ ev'.why = "exception" <=> ev'.exc # "none"
        /\ ev'.exc # "none" => (ev'.exit = "return" /\ ev'.log = {"error"}) ]_vars

\* the transfer of a session_end handler rejected: the handler logged the
\* error and returned
C27_Witness ==
  /\ ev.op = "hookBisync"
  /\ ev.kind = "session_end"
  /\ ev.exc = "bisync"
  /\ ev.exit = "return"
  /\ ev.log = {"error"}

\* the last step made the first transfer invocation of an attempt
FirstTransferInvoked == ev.op = "install" /\ ev.exit = "await"

\* C28: the first transfer invocation of every attempt is made with resync
\* equal to the negation of hasSuccessfulSync as it was at that attempt's start.
C28_ResyncFromAttemptStart ==
  [][ FirstTransferInvoked' =>
        \E t \in BagToSet(tasks') :
          /\ t.pc = "bisync"
          /\ t.resync = ev'.needsResync
          /\ t.resync = ~ev'.hs0 ]_vars

\* the last step ended an attempt that made the retry with resync: true
RetryAttemptEnded == AttemptEnded /\ ev.op = "retry"

\* C29: when an attempt performs the resync retry, only the retry's result
\* determines the recorded lastSyncOk, errorCount and hasSuccessfulSync, and
\* the attempt increases syncCount by exactly 1 although it made two transfer
\* invocations.
C29_RetryResultDecides ==
  [][ RetryAttemptEnded' =>
        /\ ev'.calls = 2
        /\ state'.syncCount = state.syncCount + 1
        /\ ev'.last # Null =>
             /\ state'.lastSyncOk = Some(ev'.last[1].ok)
             /\ state'.errorCount =
                  state.errorCount + (IF ev'.last[1].ok THEN 0 ELSE 1)
             /\ state'.hasSuccessfulSync =
                  (state.hasSuccessfulSync \/ ev'.last[1].ok) ]_vars

\* the positions of the call c in the calls a step made, in order
CallsOf(c, order) == { i \in 1..Len(order) : order[i] = c }

\* C30: start() performs the stale-lock cleanup exactly once, before it arms
\* any timer, whenever the provider is set and not "off", also when the
\* interval is <= 0 and no timer is armed; it performs no cleanup when the
\* provider is unset or "off".
C30_StartCleansOnceIffProviderOn ==
  [][ ev'.op = "start" =>
        LET cfg == currentSyncConfig'[1]
            cleanups == CallsOf("clearStaleLocks", ev'.order)
            armings == CallsOf("setTimeout", ev'.order)
        IN
        /\ ~ProviderOff(cfg) =>
             /\ Cardinality(cleanups) = 1
             /\ \A i \in cleanups, j \in armings : i < j
             /\ ev'.cleanup /\ ev'.fs # Null
             /\ lockDir = Null => lockDir' = Null
             /\ (lockDir # Null /\ ~ev'.fs[1].readdirThrows) =>
                  /\ lockDir' # Null
                  /\ lockDir'[1] \cap LckNames = lockDir[1] \cap ev'.fs[1].unlinkFails
                  /\ lockDir'[1] \cap OtherNames = lockDir[1] \cap OtherNames
        /\ ProviderOff(cfg) =>
             /\ cleanups = {}
             /\ ~ev'.cleanup
             /\ lockDir' = lockDir
        /\ (armings # {}) <=> (timers' \ timers # {} \/ ev'.armed) ]_vars

\* a start() with provider "dropbox" and interval 0 cleaned the lock directory
\* and armed no timer
C30_Witness ==
  /\ ev.op = "start"
  /\ ev.why = "disabled"
  /\ currentSyncConfig = Some(Config(Some("dropbox"), Some(0)))
  /\ ev.order = << "clearStaleLocks" >>
  /\ ev.fs = Some([readdirThrows |-> FALSE, unlinkFails |-> {}])
  /\ lockDir = Some({ <<"c", "lst">> })
  /\ timers = {}
  /\ ~state.running

\* C31: start() never runs an attempt synchronously: when it enables the loop
\* it arms exactly one one-shot timer, for the grace delay of 5 seconds, and
\* the first timer-driven attempt of that run begins only when that timer fires.
C31_FirstAttemptByGraceTimer ==
  [][ /\ ev'.op = "start" =>
           /\ BagCardinality(tasks') = BagCardinality(tasks)
           /\ NumTransfers' = NumTransfers
           /\ StartedEnabled' =>
                /\ Cardinality(CallsOf("setTimeout", ev'.order)) = 1
                /\ graceTimer' = Some([id |-> state'.timeoutId, delay |-> GraceDelayMs,
                                       due |-> now' + GraceDelayMs])
                /\ graceTimer'[1] \in timers'
      /\ (TimerAttemptBegan' /\ graceTimer # Null) =>
           timers \ timers' = { graceTimer[1] } ]_vars

\* the timer-driven doSync executions that have not returned
ScheduledTasks == { t \in BagToSet(tasks) : t.kind = "loop" }

\* C32: "attempt in flight" and "timer armed for the next attempt" are mutually
\* exclusive: in no reachable state is a timer pending while a scheduled
\* attempt is executing, also when stop() and start() are called during it.
C32_NoTimerDuringScheduledAttempt == ~(timers # {} /\ ScheduledTasks # {})

\* the transfers of timer-driven attempts that are in flight
NumScheduledTransfers ==
  BagCardinality([ t \in { u \in ScheduledTasks : u.pc \in {"bisync", "retry"} }
                     |-> CopiesIn(t, tasks) ])

\* C33: when triggerImmediateSync is never called, two timer-driven attempts
\* never execute at the same time, whatever the interleaving of start, stop,
\* timer firings and transfer completions.
C33_ScheduledAttemptsNeverOverlap == NumScheduledTransfers <= 1

\* C34: in every reachable state at most one timer is pending, and it is the
\* one whose handle is stored in timeoutId, so that stop() can cancel it.
C34_OnlyStoredTimerPending ==
  /\ Cardinality(timers) <= 1
  /\ \A tm \in timers : tm.id = state.timeoutId

\* C35: stale-lock cleanup, from start() or from a failed attempt, never runs
\* while the transfer of another sync attempt is in flight.
C35_NoCleanupDuringTransfer ==
  [][ ev'.cleanup => NumTransfers' = 0 ]_vars

\* the parameters p were all passed by one start() call
FromOneStart(p) ==
  \E a \in StartArgs :
    /\ p.syncConfig = a.syncConfig
    /\ p.workspaceDir = Some(a.workspaceDir)
    /\ p.stateDir = Some(a.stateDir)

\* C36: every attempt resolves its parameters from a config, workspaceDir and
\* stateDir that all come from the same start() call, also when stop() or a
\* new start() ran while its install check was pending.
C36_ParametersFromOneStart ==
  \A t \in BagToSet(tasks) :
    t.pc \in {"bisync", "retry"} => FromOneStart(t.resolved[1])

\* the last step invoked the transfer: the first call of an attempt or its retry
TransferInvoked == ev.op \in {"install", "bisync"} /\ ev.exit = "await"

\* a timer callback or a triggerImmediateSync call that found no run context:
\* it returned at the entry check, called nothing and armed nothing
NoOpWithoutContext ==
  /\ ev'.exit = "return"
  /\ ev'.why = "noContext"
  /\ ev'.calls = 0
  /\ ~ev'.cleanup
  /\ ~ev'.armed
  /\ tasks' = tasks
  /\ state' = state
  /\ context' = context
  /\ timers' \subseteq timers
  /\ lockDir' = lockDir

\* C37 (as stated): after stop() returns and until the next start(), no new
\* transfer invocation begins, and every timer that fires and every
\* triggerImmediateSync call invokes no collaborator and arms no timer.
C37_NoTransferWhileStopped ==
  [][ NoContext =>
        /\ ~TransferInvoked'
        /\ ev'.op \in {"fire", "trigger"} => NoOpWithoutContext ]_vars

\* C37 (amended): after stop() returns and until the next start(), every timer
\* that fires and every triggerImmediateSync call returns at the entry check,
\* invokes no collaborator and arms no timer.
C37_NoNewAttemptWhileStopped ==
  [][ (NoContext /\ ev'.op \in {"fire", "trigger"}) => NoOpWithoutContext ]_vars

\* a timer that stop() could not cancel fired after the stop() and did nothing
C37_Witness ==
  /\ ev.op = "fire"
  /\ ev.why = "noContext"
  /\ NoContext
  /\ ~state.running
  /\ timers = {}

\* C38: in every reachable state, running = true implies that a run context
\* is registered, that its provider is set and not "off", and that
\* intervalMs >= 60000.
C38_RunningImpliesContext ==
  state.running =>
    /\ currentSyncConfig # Null
    /\ currentWorkspaceDir # Null
    /\ currentStateDir # Null
    /\ currentLogger # Null
    /\ ~ProviderOff(currentSyncConfig[1])
    /\ state.intervalMs >= MinIntervalSeconds * 1000

\* running after a start() with an interval of 10 seconds, raised to 60000 ms,
\* while an attempt of the run has re-armed the timer
C38_Witness ==
  /\ state.running
  /\ currentSyncConfig = Some(Config(Some("dropbox"), Some(10)))
  /\ state.intervalMs = MinIntervalSeconds * 1000
  /\ ScheduledAttemptCompleted
  /\ ev.armed

\* C39: a single attempt increases errorCount by at most 1 and syncCount by
\* at most 1, also when a logger call throws after the outcome has been
\* recorded.  The counters change only in the step that ends an attempt.
C39_AttemptCountsAtMostOnce ==
  [][ /\ state'.errorCount <= state.errorCount + 1
      /\ state'.syncCount <= state.syncCount + 1 ]_vars

\* the session handlers awaiting their runBisync call
HookTransfers == { h \in BagToSet(hookTasks) : h.pc = "bisync" }

\* a handler and a scheduled attempt transfer the same local directory to the
\* remote of the one plugin configuration at the same time
HookOverlapsScheduler ==
  \E h \in HookTransfers, t \in ScheduledTasks :
    /\ t.pc \in {"bisync", "retry"}
    /\ t.syncConfig = pluginConfig[1]
    /\ t.resolved[1].workspaceDir = Some(h.wsDir)

\* C40: a bidirectional-sync invocation made by a session_start or
\* session_end handler never overlaps in time with a sync attempt of the
\* background scheduler against the same local/remote pair.
C40_HookNeverOverlapsScheduler == ~HookOverlapsScheduler
====
